---- MODULE Spec2Model ----
(***************************************************************************)
(* fxload (examples/fxload.c): the two entry points that download firmware *)
(* into an EZ-USB microcontroller.  The first main() (lines 86-291) can    *)
(* auto-detect the device from a table of known devices; the second,       *)
(* legacy main() (lines 374-528) needs the vid:pid from the caller.        *)
(*                                                                         *)
(* The model follows one run of one entry point from getopt() to return.   *)
(* Every call into libusb and into ezusb.c is appended to `calls`, with    *)
(* the handle, the image, the family and the status it returned, so that   *)
(* ordering and resource properties can be stated over that history.       *)
(* The -v option only raises `verbose`, which gates log output and the     *)
(* libusb debug level; it and the log text are left out of the state.      *)
(***************************************************************************)
EXTENDS Integers, Sequences, FiniteSets, TLC

(* ---------------------------------------------------------------- bounds *)
\* longest device list libusb_get_device_list() returns in the model
MaxDevs == 3

(* ------------------------------------------------------------- constants *)
NULL == "NULL"
FX_TYPE_UNDEFINED == -1
FX_TYPE_MAX == 5
\* fx_name[] (FX_TYPE_NAMES), in the order of the usage text
fx_name == <<"an21", "fx", "fx2", "fx2lp", "fx3">>
\* C arrays are 0-based: fx_name[i] in the code is fx_name[i + 1] here
FxIndex(name) == CHOOSE i \in 0..(FX_TYPE_MAX - 1) : fx_name[i + 1] = name

\* the names the legacy entry accepts for -t
LegacyTypeNames == {"an21", "fx", "fx2", "fx2lp"}

\* FX_KNOWN_DEVICES: (vid, pid, type) rows.  Two rows share a family, and
\* one (vid, pid) the model can attach is in no row.
known_device ==
  << [vid |-> 1, pid |-> 1, type |-> 0],
     [vid |-> 1, pid |-> 2, type |-> 0],
     [vid |-> 2, pid |-> 1, type |-> 3] >>
ARRAYSIZE_known_device == Len(known_device)

\* whether ezusb_load_eeprom() can program the family's boot EEPROM
SupportsEeprom(t) == t \in 0..3

\* (uint16_t) x
U16(x) == x % 65536
\* the int a process's return value becomes as an exit status
ExitStatus(r) == r % 256

(* ---------------------------------------------------------------- inputs *)
Vids == {1, 2}
Pids == {1, 2}
\* what -D or $DEVICE can hold: nothing, a string sscanf cannot parse, or
\* a string that parses into two unsigned values (one of them is wider
\* than 16 bits)
NoDeviceId == [set |-> FALSE, ok |-> FALSE, vid |-> 0, pid |-> 0]
DeviceIds ==
  {NoDeviceId, [set |-> TRUE, ok |-> FALSE, vid |-> 0, pid |-> 0]}
  \cup {[set |-> TRUE, ok |-> TRUE, vid |-> v, pid |-> p] :
          v \in Vids \cup {65537}, p \in Pids}
TypeArgs == {"an21", "fx", "fx2", "fx2lp", "fx3", "bogus"}
\* values strtoul() can give for -c
ConfigArgs == {0, 255, 256}
\* status of a failing libusb call, and of a failing ezusb_load_*()
Failures == {-1, -2}
LIBUSB_SUCCESS == 0

\* an attached device: what libusb_get_device_descriptor() gives for it
Descs ==
  {[ok |-> TRUE, vid |-> v, pid |-> p] : v \in Vids, p \in Pids}
  \cup {[ok |-> FALSE, vid |-> 0, pid |-> 0]}
DevLists == UNION {[1..n -> Descs] : n \in 0..MaxDevs}

\* libusb_device_handle: NULL, or the open device's (vid, pid)
NoHandle == [vid |-> -1, pid |-> -1]

VARIABLES
  entry,          \* which main() runs: "auto" or "legacy"
  pc,             \* position in main()
  device_id,      \* device_id / device_path
  firmware_path,  \* firmware_path / ihex_path
  loader_path,    \* loader_path / stage1
  type,
  config,
  fx_type,        \* fx_type (auto entry)
  fx2,            \* fx2 (legacy entry)
  vid, pid,
  status,
  devs,           \* the list libusb_get_device_list() returned
  dev,            \* index into devs of `dev`, 0 for NULL
  device,         \* the open handle
  calls,          \* history of the library calls made
  ret             \* main()'s return value

vars == <<entry, pc, device_id, firmware_path, loader_path, type, config,
          fx_type, fx2, vid, pid, status, devs, dev, device, calls, ret>>

Call(op, h, image, fx, tname, arg, res) ==
  [op |-> op, h |-> h, image |-> image, fx |-> fx, tname |-> tname,
   arg |-> arg, res |-> res]
\* a libusb call, which has no image or family
UsbCall(op, h, res) == Call(op, h, NULL, FX_TYPE_UNDEFINED, NULL, 0, res)

Init ==
  /\ entry \in {"auto", "legacy"}
  /\ pc = "getopt"
  /\ device_id \in DeviceIds        \* getenv("DEVICE")
  /\ firmware_path = NULL
  /\ loader_path = NULL
  /\ type = NULL
  /\ config = -1
  /\ fx_type = FX_TYPE_UNDEFINED
  /\ fx2 = -1                       \* indeterminate; written before it is read
  /\ vid = 0
  /\ pid = 0
  /\ status = 0                     \* indeterminate; written before it is read
  /\ devs = <<>>
  /\ dev = 0
  /\ device = NoHandle
  /\ calls = <<>>
  /\ ret = 0

\* return r from main()
Return(r) == pc' = "done" /\ ret' = r

(* ------------------------------------------------ getopt loop, both mains *)
OptD ==
  /\ pc = "getopt"
  /\ \E id \in DeviceIds \ {NoDeviceId} : device_id' = id
  /\ UNCHANGED <<entry, pc, firmware_path, loader_path, type, config, fx_type,
                 fx2, vid, pid, status, devs, dev, device, calls, ret>>

OptI ==
  /\ pc = "getopt"
  /\ firmware_path' = "firmware"
  /\ UNCHANGED <<entry, pc, device_id, loader_path, type, config, fx_type,
                 fx2, vid, pid, status, devs, dev, device, calls, ret>>

OptV ==
  /\ pc = "getopt"
  /\ calls' = Append(calls, UsbCall("puts_version", NoHandle, 0))
  /\ Return(0)
  /\ UNCHANGED <<entry, device_id, firmware_path, loader_path, type, config,
                 fx_type, fx2, vid, pid, status, devs, dev, device>>

Optc ==
  /\ pc = "getopt"
  /\ \E c \in ConfigArgs :
       /\ config' = c
       /\ IF c < 0 \/ c > 255
            THEN Return(-1)              \* goto usage
            ELSE UNCHANGED <<pc, ret>>
  /\ UNCHANGED <<entry, device_id, firmware_path, loader_path, type, fx_type,
                 fx2, vid, pid, status, devs, dev, device, calls>>

Opts ==
  /\ pc = "getopt"
  /\ loader_path' = "loader"
  /\ UNCHANGED <<entry, pc, device_id, firmware_path, type, config, fx_type,
                 fx2, vid, pid, status, devs, dev, device, calls, ret>>

\* -t in the auto entry: stored, looked up after the loop
Optt ==
  /\ pc = "getopt"
  /\ entry = "auto"
  /\ \E t \in TypeArgs : type' = t
  /\ UNCHANGED <<entry, pc, device_id, firmware_path, loader_path, config,
                 fx_type, fx2, vid, pid, status, devs, dev, device, calls, ret>>

\* -t in the legacy entry: checked against the four names on the spot
LegacyOptt ==
  /\ pc = "getopt"
  /\ entry = "legacy"
  /\ \E t \in TypeArgs :
       IF t \notin LegacyTypeNames
         THEN Return(-1) /\ UNCHANGED type     \* goto usage
         ELSE type' = t /\ UNCHANGED <<pc, ret>>
  /\ UNCHANGED <<entry, device_id, firmware_path, loader_path, config,
                 fx_type, fx2, vid, pid, status, devs, dev, device, calls>>

\* '?' and unknown options
OptUnknown ==
  /\ pc = "getopt"
  /\ Return(-1)
  /\ UNCHANGED <<entry, device_id, firmware_path, loader_path, type, config,
                 fx_type, fx2, vid, pid, status, devs, dev, device, calls>>

(* ------------------------------------- auto-detecting main(), lines 141-291 *)
\* lines 141-150: -c needs -t, -s and -I
EepromArgsMissing(t, loader, firmware) ==
  t = NULL \/ loader = NULL \/ firmware = NULL

\* lines 167-178: the index of the -t name in fx_name[], FX_TYPE_MAX if none
TypeIndex(t) ==
  IF \E i \in 0..(FX_TYPE_MAX - 1) : fx_name[i + 1] = t
    THEN FxIndex(t)
    ELSE FX_TYPE_MAX

\* lines 141-178, once getopt() has returned EOF
CheckArgs ==
  /\ pc = "getopt"
  /\ entry = "auto"
  /\ IF \/ config >= 0 /\ EepromArgsMissing(type, loader_path, firmware_path)
        \/ firmware_path = NULL
        \/ device_id.set /\ ~device_id.ok
        \/ type # NULL /\ TypeIndex(type) >= FX_TYPE_MAX
       THEN Return(-1) /\ UNCHANGED <<vid, pid, fx_type>>
       ELSE /\ pc' = "init"
            /\ IF device_id.set
                 THEN vid' = device_id.vid /\ pid' = device_id.pid
                 ELSE UNCHANGED <<vid, pid>>
            /\ IF type # NULL
                 THEN fx_type' = TypeIndex(type)
                 ELSE UNCHANGED fx_type
            /\ UNCHANGED ret
  /\ UNCHANGED <<entry, device_id, firmware_path, loader_path, type, config,
                 fx2, status, devs, dev, device, calls>>

\* lines 181-188
LibusbInit ==
  /\ pc = "init"
  /\ entry = "auto"
  /\ \E s \in {LIBUSB_SUCCESS} \cup Failures :
       /\ status' = s
       /\ calls' = Append(calls, UsbCall("libusb_init", NoHandle, s))
       /\ IF s < 0
            THEN Return(-1)
            ELSE /\ pc' = IF type = NULL \/ ~device_id.set
                            THEN "get_list" ELSE "open_vid_pid"
                 /\ UNCHANGED ret
  /\ UNCHANGED <<entry, device_id, firmware_path, loader_path, type, config,
                 fx_type, fx2, vid, pid, devs, dev, device>>

\* lines 190-194
GetDeviceList ==
  /\ pc = "get_list"
  /\ \/ /\ calls' = calls \o << UsbCall("libusb_get_device_list", NoHandle, -1),
                                UsbCall("libusb_exit", NoHandle, 0) >>
        /\ Return(-1)
        /\ UNCHANGED devs
     \/ \E l \in DevLists :
          /\ devs' = l
          /\ calls' = Append(calls,
                        UsbCall("libusb_get_device_list", NoHandle, Len(l)))
          /\ pc' = "find"
          /\ UNCHANGED ret
  /\ UNCHANGED <<entry, device_id, firmware_path, loader_path, type, config,
                 fx_type, fx2, vid, pid, status, dev, device>>

\* lines 201-202
KnownMatch(desc, j) ==
  desc.vid = known_device[j].vid /\ desc.pid = known_device[j].pid

\* Selects with the family comparison of line 213 left out
Selects_AnyFamily(desc, j) ==
  /\ KnownMatch(desc, j)
  /\ \/ type = NULL /\ ~device_id.set
     \/ type = NULL /\ vid = desc.vid /\ pid = desc.pid
     \/ ~device_id.set

\* lines 203-217: row j of the table ends the inner loop for this descriptor
Selects(desc, j) ==
  /\ KnownMatch(desc, j)
  /\ \/ type = NULL /\ ~device_id.set
     \/ type = NULL /\ vid = desc.vid /\ pid = desc.pid
     \/ ~device_id.set /\ fx_type = known_device[j].type

\* lines 200-219: j when the inner loop ends, ARRAYSIZE + 1 here when no
\* row was selected (rows are numbered from 1)
InnerLoop(desc) ==
  IF \E j \in 1..ARRAYSIZE_known_device : Selects(desc, j)
    THEN CHOOSE j \in 1..ARRAYSIZE_known_device :
           /\ Selects(desc, j)
           /\ \A k \in 1..(j - 1) : ~Selects(desc, k)
    ELSE ARRAYSIZE_known_device + 1

\* lines 196-226: device i ends the outer loop
Found(i) ==
  devs[i].ok /\ InnerLoop(devs[i]) <= ARRAYSIZE_known_device

\* OuterLoop without the break of line 224: the last match wins
OuterLoop_LastMatch ==
  IF \E i \in 1..Len(devs) : Found(i)
    THEN CHOOSE i \in 1..Len(devs) :
           Found(i) /\ \A k \in (i + 1)..Len(devs) : ~Found(k)
    ELSE 0

\* lines 195-227: i when the outer loop ends, 0 for dev == NULL
OuterLoop ==
  IF \E i \in 1..Len(devs) : Found(i)
    THEN CHOOSE i \in 1..Len(devs) :
           Found(i) /\ \A k \in 1..(i - 1) : ~Found(k)
    ELSE 0

\* lines 195-232
FindKnownDevice ==
  /\ pc = "find"
  /\ LET i == OuterLoop
         last == IF i = 0 THEN Len(devs) ELSE i
     IN /\ dev' = i
        /\ status' = IF last = 0 THEN status
                     ELSE IF devs[last].ok THEN LIBUSB_SUCCESS ELSE -1
        /\ IF i = 0
             THEN /\ calls' = Append(calls,
                                UsbCall("libusb_free_device_list", NoHandle, 0))
                  /\ Return(-1)
                  /\ UNCHANGED <<fx_type, vid, pid>>
             ELSE LET desc == devs[i]
                      j == InnerLoop(desc)
                  IN /\ IF type = NULL
                          THEN fx_type' = known_device[j].type
                          ELSE UNCHANGED fx_type
                     /\ IF ~device_id.set
                          THEN vid' = desc.vid /\ pid' = desc.pid
                          ELSE UNCHANGED <<vid, pid>>
                     /\ pc' = "open"
                     /\ UNCHANGED <<calls, ret>>
  /\ UNCHANGED <<entry, device_id, firmware_path, loader_path, type, config,
                 fx2, devs, device>>

\* lines 233-239
OpenDetected ==
  /\ pc = "open"
  /\ \E s \in {LIBUSB_SUCCESS} \cup Failures :
       /\ status' = s
       /\ IF s < 0
            THEN /\ calls' = calls \o << UsbCall("libusb_open", NoHandle, s),
                                         UsbCall("libusb_exit", NoHandle, 0) >>
                 /\ Return(-1)
                 /\ UNCHANGED device
            ELSE /\ device' = [vid |-> devs[dev].vid, pid |-> devs[dev].pid]
                 /\ calls' = calls \o
                      << UsbCall("libusb_open", device', s),
                         UsbCall("libusb_free_device_list", NoHandle, 0) >>
                 /\ pc' = "claim"
                 /\ UNCHANGED ret
  /\ UNCHANGED <<entry, device_id, firmware_path, loader_path, type, config,
                 fx_type, fx2, vid, pid, devs, dev>>

\* lines 241-246
OpenWithVidPid ==
  /\ pc = "open_vid_pid"
  /\ entry = "auto"
  /\ \/ /\ calls' = calls \o
             << UsbCall("libusb_open_device_with_vid_pid", NoHandle, -1),
                UsbCall("libusb_exit", NoHandle, 0) >>
        /\ Return(-1)
        /\ UNCHANGED device
     \/ /\ device' = [vid |-> U16(vid), pid |-> U16(pid)]
        /\ calls' = Append(calls,
                      UsbCall("libusb_open_device_with_vid_pid", device', 0))
        /\ pc' = "claim"
        /\ UNCHANGED ret
  /\ UNCHANGED <<entry, device_id, firmware_path, loader_path, type, config,
                 fx_type, fx2, vid, pid, status, devs, dev>>

\* lines 249-256 and 478-485: the calls that claim interface 0.  s1 is the
\* status of the first libusb_claim_interface(); on a Linux build a failure
\* is followed by a detach and a second attempt, of status s2.
ClaimCalls(linux, s1, s2) ==
  IF linux /\ s1 # LIBUSB_SUCCESS
    THEN << UsbCall("libusb_claim_interface", device, s1),
            UsbCall("libusb_detach_kernel_driver", device, 0),
            UsbCall("libusb_claim_interface", device, s2) >>
    ELSE << UsbCall("libusb_claim_interface", device, s1) >>
ClaimStatus(linux, s1, s2) ==
  IF linux /\ s1 # LIBUSB_SUCCESS THEN s2 ELSE s1

\* ClaimInterface without the return of line 260
ClaimInterface_NoReturn ==
  /\ pc = "claim"
  /\ entry = "auto"
  /\ \E linux \in BOOLEAN, s1, s2 \in {LIBUSB_SUCCESS} \cup Failures :
       /\ status' = ClaimStatus(linux, s1, s2)
       /\ IF status' # LIBUSB_SUCCESS
            THEN calls' = calls \o ClaimCalls(linux, s1, s2)
                            \o << UsbCall("libusb_exit", NoHandle, 0) >>
            ELSE calls' = calls \o ClaimCalls(linux, s1, s2)
       /\ pc' = "load"
       /\ UNCHANGED ret
  /\ UNCHANGED <<entry, device_id, firmware_path, loader_path, type, config,
                 fx_type, fx2, vid, pid, devs, dev, device>>

\* lines 249-261
ClaimInterface ==
  /\ pc = "claim"
  /\ entry = "auto"
  /\ \E linux \in BOOLEAN, s1, s2 \in {LIBUSB_SUCCESS} \cup Failures :
       /\ status' = ClaimStatus(linux, s1, s2)
       /\ IF status' # LIBUSB_SUCCESS
            THEN /\ calls' = calls \o ClaimCalls(linux, s1, s2)
                               \o << UsbCall("libusb_exit", NoHandle, 0) >>
                 /\ Return(-1)
            ELSE /\ calls' = calls \o ClaimCalls(linux, s1, s2)
                 /\ pc' = "load"
                 /\ UNCHANGED ret
  /\ UNCHANGED <<entry, device_id, firmware_path, loader_path, type, config,
                 fx_type, fx2, vid, pid, devs, dev, device>>

\* the statuses ezusb_load_ram() can return
RamResults == {0} \cup Failures
\* the statuses ezusb_load_eeprom() can return for family t
EepromResults(t) == IF SupportsEeprom(t) THEN {0} \cup Failures ELSE Failures

\* LoadFirstStage without the goto of line 272
LoadFirstStage_NoGoto ==
  /\ pc = "load"
  /\ entry = "auto"
  /\ loader_path # NULL
  /\ \E s \in RamResults :
       /\ status' = s
       /\ calls' = Append(calls,
            Call("ezusb_load_ram", device, loader_path, fx_type, NULL, 0, s))
       /\ pc' = "stage2"
  /\ UNCHANGED <<entry, device_id, firmware_path, loader_path, type, config,
                 fx_type, fx2, vid, pid, devs, dev, device, ret>>

\* lines 266-272
LoadFirstStage ==
  /\ pc = "load"
  /\ entry = "auto"
  /\ loader_path # NULL
  /\ \E s \in RamResults :
       /\ status' = s
       /\ calls' = Append(calls,
            Call("ezusb_load_ram", device, loader_path, fx_type, NULL, 0, s))
       /\ pc' = IF s # 0 THEN "out" ELSE "stage2"
  /\ UNCHANGED <<entry, device_id, firmware_path, loader_path, type, config,
                 fx_type, fx2, vid, pid, devs, dev, device, ret>>

\* LoadSecondStage that ignores config and always writes RAM
LoadSecondStage_AlwaysRam ==
  /\ pc = "stage2"
  /\ entry = "auto"
  /\ \E s \in RamResults :
       /\ status' = s
       /\ calls' = Append(calls,
            Call("ezusb_load_ram", device, firmware_path, fx_type, NULL, 1, s))
  /\ pc' = "out"
  /\ UNCHANGED <<entry, device_id, firmware_path, loader_path, type, config,
                 fx_type, fx2, vid, pid, devs, dev, device, ret>>

\* lines 274-278
LoadSecondStage ==
  /\ pc = "stage2"
  /\ entry = "auto"
  /\ IF config >= 0
       THEN \E s \in EepromResults(fx_type) :
              /\ status' = s
              /\ calls' = Append(calls,
                   Call("ezusb_load_eeprom", device, firmware_path, fx_type,
                        NULL, config, s))
       ELSE \E s \in RamResults :
              /\ status' = s
              /\ calls' = Append(calls,
                   Call("ezusb_load_ram", device, firmware_path, fx_type,
                        NULL, 1, s))
  /\ pc' = "out"
  /\ UNCHANGED <<entry, device_id, firmware_path, loader_path, type, config,
                 fx_type, fx2, vid, pid, devs, dev, device, ret>>

\* LoadSingleStage that passes the second-stage flag
LoadSingleStage_Stage1 ==
  /\ pc = "load"
  /\ entry = "auto"
  /\ loader_path = NULL
  /\ \E s \in RamResults :
       /\ status' = s
       /\ calls' = Append(calls,
            Call("ezusb_load_ram", device, firmware_path, fx_type, NULL, 1, s))
  /\ pc' = "out"
  /\ UNCHANGED <<entry, device_id, firmware_path, loader_path, type, config,
                 fx_type, fx2, vid, pid, devs, dev, device, ret>>

\* lines 279-284
LoadSingleStage ==
  /\ pc = "load"
  /\ entry = "auto"
  /\ loader_path = NULL
  /\ \E s \in RamResults :
       /\ status' = s
       /\ calls' = Append(calls,
            Call("ezusb_load_ram", device, firmware_path, fx_type, NULL, 0, s))
  /\ pc' = "out"
  /\ UNCHANGED <<entry, device_id, firmware_path, loader_path, type, config,
                 fx_type, fx2, vid, pid, devs, dev, device, ret>>

\* Cleanup that stores libusb_release_interface()'s status in `status`
Cleanup_StatusOverwritten ==
  /\ pc = "out"
  /\ entry = "auto"
  /\ calls' = calls \o << UsbCall("libusb_release_interface", device, 0),
                          UsbCall("libusb_close", device, 0),
                          UsbCall("libusb_exit", NoHandle, 0) >>
  /\ status' = 0
  /\ Return(status')
  /\ UNCHANGED <<entry, device_id, firmware_path, loader_path, type, config,
                 fx_type, fx2, vid, pid, devs, dev, device>>

\* lines 286-290
Cleanup ==
  /\ pc = "out"
  /\ entry = "auto"
  /\ calls' = calls \o << UsbCall("libusb_release_interface", device, 0),
                          UsbCall("libusb_close", device, 0),
                          UsbCall("libusb_exit", NoHandle, 0) >>
  /\ Return(status)
  /\ UNCHANGED <<entry, device_id, firmware_path, loader_path, type, config,
                 fx_type, fx2, vid, pid, status, devs, dev, device>>

(* -------------------------------------------- legacy main(), lines 434-528 *)
\* lines 434-463, once getopt() has returned EOF
LegacyCheckArgs ==
  /\ pc = "getopt"
  /\ entry = "legacy"
  /\ IF \/ config >= 0 /\ (type = NULL \/ loader_path = NULL
                                       \/ firmware_path = NULL)
        \/ ~device_id.set
        \/ firmware_path = NULL
        \/ ~device_id.ok
       THEN Return(-1) /\ UNCHANGED <<vid, pid>>
       ELSE /\ vid' = device_id.vid
            /\ pid' = device_id.pid
            /\ pc' = "init"
            /\ UNCHANGED ret
  /\ UNCHANGED <<entry, device_id, firmware_path, loader_path, type, config,
                 fx_type, fx2, status, devs, dev, device, calls>>

\* lines 465-470
LegacyLibusbInit ==
  /\ pc = "init"
  /\ entry = "legacy"
  /\ \E s \in {LIBUSB_SUCCESS} \cup Failures :
       /\ status' = s
       /\ calls' = Append(calls, UsbCall("libusb_init", NoHandle, s))
       /\ IF s < 0
            THEN Return(-1)
            ELSE pc' = "open_vid_pid" /\ UNCHANGED ret
  /\ UNCHANGED <<entry, device_id, firmware_path, loader_path, type, config,
                 fx_type, fx2, vid, pid, devs, dev, device>>

\* lines 471-476
LegacyOpen ==
  /\ pc = "open_vid_pid"
  /\ entry = "legacy"
  /\ \/ /\ calls' = calls \o
             << UsbCall("libusb_open_device_with_vid_pid", NoHandle, -1),
                UsbCall("libusb_exit", NoHandle, 0) >>
        /\ Return(-1)
        /\ UNCHANGED device
     \/ /\ device' = [vid |-> U16(vid), pid |-> U16(pid)]
        /\ calls' = Append(calls,
                      UsbCall("libusb_open_device_with_vid_pid", device', 0))
        /\ pc' = "claim"
        /\ UNCHANGED ret
  /\ UNCHANGED <<entry, device_id, firmware_path, loader_path, type, config,
                 fx_type, fx2, vid, pid, status, devs, dev>>

\* lines 478-490
LegacyClaimInterface ==
  /\ pc = "claim"
  /\ entry = "legacy"
  /\ \E linux \in BOOLEAN, s1, s2 \in {LIBUSB_SUCCESS} \cup Failures :
       /\ status' = ClaimStatus(linux, s1, s2)
       /\ IF status' # LIBUSB_SUCCESS
            THEN /\ calls' = calls \o ClaimCalls(linux, s1, s2)
                               \o << UsbCall("libusb_exit", NoHandle, 0) >>
                 /\ Return(-1)
            ELSE /\ calls' = calls \o ClaimCalls(linux, s1, s2)
                 /\ pc' = "set_type"
                 /\ UNCHANGED ret
  /\ UNCHANGED <<entry, device_id, firmware_path, loader_path, type, config,
                 fx_type, fx2, vid, pid, devs, dev, device>>

\* lines 492-498
LegacySetType ==
  /\ pc = "set_type"
  /\ IF type = NULL
       THEN type' = "fx" /\ fx2' = 0
     ELSE IF type = "fx2lp"
       THEN fx2' = 2 /\ UNCHANGED type
     ELSE fx2' = (IF type = "fx2" THEN 1 ELSE 0) /\ UNCHANGED type
  /\ pc' = "load"
  /\ UNCHANGED <<entry, device_id, firmware_path, loader_path, config,
                 fx_type, vid, pid, status, devs, dev, device, calls, ret>>

\* the statuses ezusb_load_eeprom() of the legacy entry can return
LegacyEepromResults(tname) ==
  IF tname \in LegacyTypeNames THEN {0} \cup Failures ELSE Failures

\* lines 503-509
LegacyLoadFirstStage ==
  /\ pc = "load"
  /\ entry = "legacy"
  /\ loader_path # NULL
  /\ \E s \in RamResults :
       /\ status' = s
       /\ calls' = Append(calls,
            Call("ezusb_load_ram", device, loader_path, fx2, NULL, 0, s))
       /\ pc' = IF s # 0 THEN "out" ELSE "stage2"
  /\ UNCHANGED <<entry, device_id, firmware_path, loader_path, type, config,
                 fx_type, fx2, vid, pid, devs, dev, device, ret>>

\* lines 511-515
LegacyLoadSecondStage ==
  /\ pc = "stage2"
  /\ entry = "legacy"
  /\ IF config >= 0
       THEN \E s \in LegacyEepromResults(type) :
              /\ status' = s
              /\ calls' = Append(calls,
                   Call("ezusb_load_eeprom", device, firmware_path,
                        FX_TYPE_UNDEFINED, type, config, s))
       ELSE \E s \in RamResults :
              /\ status' = s
              /\ calls' = Append(calls,
                   Call("ezusb_load_ram", device, firmware_path, fx2, NULL,
                        1, s))
  /\ pc' = "out"
  /\ UNCHANGED <<entry, device_id, firmware_path, loader_path, type, config,
                 fx_type, fx2, vid, pid, devs, dev, device, ret>>

\* lines 516-521
LegacyLoadSingleStage ==
  /\ pc = "load"
  /\ entry = "legacy"
  /\ loader_path = NULL
  /\ \E s \in RamResults :
       /\ status' = s
       /\ calls' = Append(calls,
            Call("ezusb_load_ram", device, firmware_path, fx2, NULL, 0, s))
  /\ pc' = "out"
  /\ UNCHANGED <<entry, device_id, firmware_path, loader_path, type, config,
                 fx_type, fx2, vid, pid, devs, dev, device, ret>>

\* lines 523-527
LegacyCleanup ==
  /\ pc = "out"
  /\ entry = "legacy"
  /\ calls' = calls \o << UsbCall("libusb_release_interface", device, 0),
                          UsbCall("libusb_close", device, 0),
                          UsbCall("libusb_exit", NoHandle, 0) >>
  /\ Return(status)
  /\ UNCHANGED <<entry, device_id, firmware_path, loader_path, type, config,
                 fx_type, fx2, vid, pid, status, devs, dev, device>>

Next ==
  \/ OptD \/ OptI \/ OptV \/ Optc \/ Opts \/ Optt \/ LegacyOptt \/ OptUnknown
  \/ CheckArgs \/ LibusbInit \/ GetDeviceList \/ FindKnownDevice
  \/ OpenDetected \/ OpenWithVidPid \/ ClaimInterface
  \/ LoadFirstStage \/ LoadSecondStage \/ LoadSingleStage \/ Cleanup
  \/ LegacyCheckArgs \/ LegacyLibusbInit \/ LegacyOpen \/ LegacyClaimInterface
  \/ LegacySetType
  \/ LegacyLoadFirstStage \/ LegacyLoadSecondStage \/ LegacyLoadSingleStage
  \/ LegacyCleanup

Spec == Init /\ [][Next]_vars

(* ------------------------------------------------------------ properties *)
IsLoad(c) == c.op \in {"ezusb_load_ram", "ezusb_load_eeprom"}
\* the load operations issued so far, in order
Loads == SelectSeq(calls, IsLoad)
Issued(op) == {i \in 1..Len(calls) : calls[i].op = op}
\* interface 0 is claimed: some libusb_claim_interface() returned success
Claimed == \E i \in Issued("libusb_claim_interface") : calls[i].res = 0
\* the row set of the known-device table, written out independently
InTable(v, p) ==
  \E j \in DOMAIN known_device :
    known_device[j].vid = v /\ known_device[j].pid = p
\* the device list was obtained and the search through it is over
SearchDone ==
  /\ pc \notin {"getopt", "init", "get_list", "find"}
  /\ \E i \in Issued("libusb_get_device_list") : calls[i].res >= 0

\* C1: with a loader path and a successful first pass, a finished run has
\* issued exactly two loads: ezusb_load_ram(loader, stage 0) and then
\* ezusb_load_eeprom(firmware, config) if a config byte was given, else
\* ezusb_load_ram(firmware, stage 1); both on the same open handle, and the
\* two calls are adjacent in the call history (no open, close, claim or
\* release between them).  Never more than two loads are issued.
C1_TwoStageOrder ==
  /\ Len(Loads) <= 2
  /\ (/\ pc \in {"out", "done"}
      /\ loader_path # NULL
      /\ \E i \in 1..Len(Loads) :
           Loads[i].image = loader_path /\ Loads[i].res = 0)
     => /\ Len(Loads) = 2
        /\ Loads[1].op = "ezusb_load_ram"
        /\ Loads[1].image = loader_path
        /\ Loads[1].arg = 0
        /\ Loads[1].res = 0
        /\ Loads[2].image = firmware_path
        /\ IF config >= 0
             THEN Loads[2].op = "ezusb_load_eeprom" /\ Loads[2].arg = config
             ELSE Loads[2].op = "ezusb_load_ram" /\ Loads[2].arg = 1
        /\ Loads[1].h = Loads[2].h
        /\ Loads[1].h = device
        /\ device # NoHandle
        /\ \E i \in 1..(Len(calls) - 1) :
             calls[i] = Loads[1] /\ calls[i + 1] = Loads[2]
C1_Witness ==
  /\ pc = "done"
  /\ entry = "legacy"
  /\ Len(Loads) = 2
  /\ Loads[2].op = "ezusb_load_eeprom"
  /\ Loads[2].res = 0

\* C2: when a config byte is given (EEPROM destination) and the resolved
\* family cannot program an EEPROM, no load operation is issued.
C2_NoLoadWhenEepromUnsupported ==
  (/\ entry = "auto"
   /\ pc # "getopt"
   /\ config >= 0
   /\ fx_type # FX_TYPE_UNDEFINED
   /\ ~SupportsEeprom(fx_type))
  => Loads = <<>>

\* attached device i agrees with the one value the caller supplied
Consistent(i) ==
  /\ devs[i].ok
  /\ \E j \in DOMAIN known_device :
       /\ known_device[j].vid = devs[i].vid
       /\ known_device[j].pid = devs[i].pid
       /\ IF type # NULL
            THEN known_device[j].type = fx_type
            ELSE devs[i].vid = vid /\ devs[i].pid = pid
\* C3: when only one of type and vid:pid is supplied and two attached known
\* devices of different vid:pid agree with it, no device is selected, none
\* is opened and no load is issued.
C3_AmbiguousReported ==
  (/\ SearchDone
   /\ (type = NULL) # (~device_id.set)
   /\ \E i, k \in 1..Len(devs) :
        devs[i] # devs[k] /\ Consistent(i) /\ Consistent(k))
  => dev = 0 /\ device = NoHandle /\ Loads = <<>>

\* C4: with neither type nor vid:pid supplied, the device selected is the
\* first attached one whose readable descriptor is in the table (none is
\* selected only if there is none); fx_type, vid and pid all come from that
\* match, and the handle opened and the loads issued are for that device.
C4_FirstKnownDevice ==
  (SearchDone /\ type = NULL /\ ~device_id.set)
  => IF dev = 0
       THEN /\ \A i \in 1..Len(devs) :
                 ~(devs[i].ok /\ InTable(devs[i].vid, devs[i].pid))
            /\ device = NoHandle
            /\ Loads = <<>>
       ELSE /\ dev \in 1..Len(devs)
            /\ devs[dev].ok
            /\ InTable(devs[dev].vid, devs[dev].pid)
            /\ \A i \in 1..(dev - 1) :
                 ~(devs[i].ok /\ InTable(devs[i].vid, devs[i].pid))
            /\ vid = devs[dev].vid
            /\ pid = devs[dev].pid
            /\ \E j \in DOMAIN known_device :
                 /\ known_device[j] = [vid |-> vid, pid |-> pid,
                                       type |-> fx_type]
                 /\ \A k \in 1..(j - 1) :
                      ~(known_device[k].vid = vid /\ known_device[k].pid = pid)
            /\ device \in {NoHandle, [vid |-> vid, pid |-> pid]}
            /\ \A i \in 1..Len(Loads) :
                 Loads[i].h = [vid |-> vid, pid |-> pid]
                 /\ Loads[i].fx = fx_type
C4_Witness ==
  /\ pc = "done"
  /\ type = NULL /\ ~device_id.set
  /\ Len(devs) = 3
  /\ dev = 2
  /\ InTable(devs[3].vid, devs[3].pid)
  /\ <<devs[3].vid, devs[3].pid>> # <<devs[2].vid, devs[2].pid>>
  /\ Loads # <<>>

\* the last libusb_claim_interface() of the run failed
ClaimFailed ==
  /\ Issued("libusb_claim_interface") # {}
  /\ ~Claimed
OpenFailed ==
  \E i \in Issued("libusb_open") \cup Issued("libusb_open_device_with_vid_pid") :
    calls[i].res < 0
NoneFound == SearchDone /\ dev = 0
\* C5: if the search finds no known device, or the open fails, or claiming
\* interface 0 fails, no load is issued and main returns non-zero.
C5_AbortBeforeTransfer ==
  /\ (NoneFound \/ OpenFailed \/ (ClaimFailed /\ pc # "claim"))
       => Loads = <<>> /\ pc = "done" /\ ExitStatus(ret) # 0
  /\ Loads # <<>> => Claimed /\ device # NoHandle
C5_Witness ==
  /\ entry = "legacy"
  /\ pc = "done"
  /\ Cardinality(Issued("libusb_claim_interface")) = 2
  /\ ClaimFailed

VersionOnly == Issued("puts_version") # {}
\* C6: main's exit status is 0 exactly when only the version was asked for
\* or at least one load was issued and every load issued returned 0.
C6_ExitStatus ==
  pc = "done" =>
    (ExitStatus(ret) = 0
       <=> \/ VersionOnly
           \/ Loads # <<>> /\ \A i \in 1..Len(Loads) : Loads[i].res = 0)
C6_Witness ==
  /\ pc = "done"
  /\ Len(Loads) = 2
  /\ Loads[1].res = 0
  /\ Loads[2].res # 0
  /\ ExitStatus(ret) # 0
  /\ Issued("libusb_close") # {}

\* C7: without a loader path no ezusb_load_eeprom is ever issued, at most
\* one load is issued, it is ezusb_load_ram(firmware, stage 0), and a run
\* that claimed the interface has issued exactly one by the time it returns.
C7_SingleStage ==
  loader_path = NULL =>
    /\ Issued("ezusb_load_eeprom") = {}
    /\ Len(Loads) <= 1
    /\ \A i \in 1..Len(Loads) :
         /\ Loads[i].op = "ezusb_load_ram"
         /\ Loads[i].image = firmware_path
         /\ Loads[i].arg = 0
    /\ (pc \in {"out", "done"} /\ Claimed) => Len(Loads) = 1
C7_Witness ==
  /\ pc = "done"
  /\ entry = "legacy"
  /\ loader_path = NULL
  /\ Len(Loads) = 1

\* the tail of the call history after a run that reached `out`
CleanupTail(h) ==
  << UsbCall("libusb_release_interface", h, 0),
     UsbCall("libusb_close", h, 0),
     UsbCall("libusb_exit", NoHandle, 0) >>
\* C8: each image is loaded at most once; if the loader pass fails it is
\* the only load of the run, the run then releases the interface, closes
\* the handle and returns the failed pass's status.
C8_FirstStageFailure ==
  /\ \A i, k \in 1..Len(Loads) : Loads[i].image = Loads[k].image => i = k
  /\ (/\ loader_path # NULL
      /\ \E i \in 1..Len(Loads) :
           Loads[i].image = loader_path /\ Loads[i].res # 0)
     => /\ Len(Loads) = 1
        /\ pc \in {"out", "done"}
        /\ pc = "done" =>
             /\ ret = Loads[1].res
             /\ Len(calls) >= 3
             /\ SubSeq(calls, Len(calls) - 2, Len(calls)) = CleanupTail(Loads[1].h)
             /\ Loads[1].h # NoHandle
C8_Witness ==
  /\ pc = "done"
  /\ entry = "auto"
  /\ loader_path # NULL
  /\ Len(Loads) = 1
  /\ Loads[1].res = -2
  /\ ret = -2

\* C9: in the auto-detecting entry every load is issued for a defined
\* family, the caller's type if one was given; (vid, pid) is the caller's
\* vid:pid if one was given; and when detection ran, (vid, pid, fx_type) is
\* a row of the table and (vid, pid) is the descriptor of the open device.
C9_ResolvedTarget ==
  (entry = "auto" /\ Loads # <<>>)
  => /\ fx_type \in 0..(FX_TYPE_MAX - 1)
     /\ \A i \in 1..Len(Loads) : Loads[i].fx = fx_type /\ Loads[i].h = device
     /\ type # NULL => fx_name[fx_type + 1] = type
     /\ device_id.set => vid = device_id.vid /\ pid = device_id.pid
     /\ (type = NULL \/ ~device_id.set)
          => /\ \E j \in DOMAIN known_device :
                  known_device[j] = [vid |-> vid, pid |-> pid, type |-> fx_type]
             /\ device = [vid |-> vid, pid |-> pid]
             /\ dev \in 1..Len(devs)
             /\ devs[dev] = [ok |-> TRUE, vid |-> vid, pid |-> pid]
C9_Witness ==
  /\ entry = "auto"
  /\ Loads # <<>>
  /\ type = "an21"
  /\ ~device_id.set
  /\ dev = 2
  /\ devs[1].ok
  /\ InTable(devs[1].vid, devs[1].pid)

\* C10: in the auto-detecting entry, a run in which libusb_init succeeded
\* returns with libusb_exit called exactly once, every device list obtained
\* freed exactly once, and every handle opened closed before libusb_exit.
C10_ResourcesBalanced ==
  (/\ entry = "auto"
   /\ pc = "done"
   /\ \E i \in Issued("libusb_init") : calls[i].res >= 0)
  => /\ Cardinality(Issued("libusb_exit")) = 1
     /\ Cardinality(Issued("libusb_free_device_list"))
          = Cardinality({i \in Issued("libusb_get_device_list") :
                           calls[i].res >= 0})
     /\ \A i \in Issued("libusb_open") \cup
                 Issued("libusb_open_device_with_vid_pid") :
          calls[i].res >= 0 =>
            \E c \in Issued("libusb_close") :
              /\ c > i
              /\ calls[c].h = calls[i].h
              /\ \A e \in Issued("libusb_exit") : c < e
====
